---- MODULE Spec2Model ----
(***************************************************************************)
(* The agentic tool-calling loop of src/lib/ai/codex-chat.ts: codexChat,   *)
(* makeCodexRequest (the SSE read loop and the tool-call accumulator) and  *)
(* executeTool.                                                            *)
(*                                                                         *)
(* Strings that the code splits, slices or concatenates are sequences of   *)
(* one-character strings.  JSON documents on the wire are abbreviated to   *)
(* two-character codes; JSONDocs is JSON.parse restricted to the documents *)
(* the modelled server can send, and every other payload makes it throw.   *)
(*                                                                         *)
(* The token lifecycle of src/lib/auth/codex.ts: getValidAccessToken with  *)
(* its refresh exchange, the OAuth login flow, logout, and the account id  *)
(* taken from the claims of an id token.  Time is Date.now() in            *)
(* milliseconds, counted from the start of a behaviour.                    *)
(*                                                                         *)
(* The stores: oauthAuth of src/stores/auth.ts, and the models store of    *)
(* src/stores/models.ts with the cache of src/lib/models/fetcher.ts.       *)
(* Home (handleSubmit, handleStop) starts a run through chat(), which      *)
(* passes some of its callbacks on to codexChat.                           *)
(***************************************************************************)
EXTENDS Integers, Sequences, FiniteSets, TLC

VARIABLES
    pc,                  \* position of codexChat
    messages,            \* the argument `messages` of codexChat
    conversationHistory, \* InputItem[] (codexChat)
    fullText,            \* codexChat
    iteration,           \* codexChat
    body,                \* the response body of the request in flight
    pos,                 \* how many characters of body reader.read() has delivered
    stream,              \* the locals of makeCodexRequest: text, buffer, toolCalls, pendingToolCalls
    turnCalls,           \* result.toolCalls of the current iteration
    callIdx,             \* index of the for loop over result.toolCalls
    requests,            \* the input of every request sent, in order
    turns,               \* what every makeCodexRequest returned, in order
    tokens,              \* the arguments of the onToken calls, in order
    toolEvents,          \* onToolCall / executeTool / onToolResult / push of the output, in order
    finished,            \* the arguments of the onFinish calls
    errors,              \* the errors passed to onError
    now,                 \* Date.now(), in milliseconds since the behaviour began
    localStorage,        \* the item stud_chatgpt_auth of localStorage, parsed
    sessionStorage,      \* the items oauth_state and oauth_pkce of sessionStorage
    call,                \* the getValidAccessToken call of every caller
    login,               \* the last handleOAuthCallback call
    network,             \* the requests made to the token endpoint, in order
    claims,              \* the argument of extractAccountIdFromClaims
    accountId,           \* what extractAccountIdFromClaims returned
    oauthAuth,           \* the field oauthAuth of the auth store
    models,              \* the state of the models store
    modelsCache,         \* the item stud_models_cache of localStorage, parsed
    fetching,            \* the fetchModels calls that await getModelsWithCache
    home,                \* Home: isStreaming, error, the assistant message of its run
    callbacks,           \* the callbacks codexChat was given, and by whom
    running              \* the chat runs Home started that have not ended

vars == <<pc, messages, conversationHistory, fullText, iteration, body, pos, stream,
          turnCalls, callIdx, requests, turns, tokens, toolEvents, finished, errors,
          now, localStorage, sessionStorage, call, login, network, claims, accountId,
          oauthAuth, models, modelsCache, fetching, home, callbacks, running>>

\* the state of src/lib/auth/codex.ts
authVars == <<now, localStorage, sessionStorage, call, login, network>>

\* the state of one extractAccountIdFromClaims call
claimsVars == <<claims, accountId>>

\* the state of the auth store and of the models store
storeVars == <<oauthAuth, models, modelsCache, fetching>>

\* the state of the caller of codexChat
appVars == <<home, callbacks, running>>

\* what the agentic loop does not touch while a request is being read or tools run
sideVars == <<authVars, claimsVars, storeVars>>

-----------------------------------------------------------------------------
(* Bounds *)

\* codexChat is called with at most MaxSeed messages
MaxSeed == 2
\* a response body of the stream specification holds at most MaxFrames lines
MaxFrames == 3
\* the token endpoint is asked at most MaxExchanges times in a behaviour
MaxExchanges == 2
\* the organizations claim lists at most MaxOrgs organizations
MaxOrgs == 2
\* at most MaxFetches fetchModels calls await at a time
MaxFetches == 2
\* at most MaxRuns chat runs started by Home are in flight at a time
MaxRuns == 2

-----------------------------------------------------------------------------
(* Strings *)

NL == "\n"

DataPrefix == <<"d", "a", "t", "a", ":", " ">>

DoneSentinel == <<"[", "D", "O", "N", "E", "]">>

StartsWith(s, p) == Len(s) >= Len(p) /\ SubSeq(s, 1, Len(p)) = p

\* String.prototype.includes
Includes(s, t) == \E i \in 0..(Len(s) - Len(t)) : SubSeq(s, i + 1, i + Len(t)) = t

\* s.split(sep) for a one-character separator: the segments between the separators,
\* always at least one
Split(s, sep) ==
    LET at == {i \in 1..Len(s) : s[i] = sep}
        \* the position of the k-th separator; 0 before the first, Len(s) + 1 after the last
        cut(k) == IF k = 0 THEN 0
                  ELSE IF k > Cardinality(at) THEN Len(s) + 1
                  ELSE CHOOSE i \in at : Cardinality({j \in at : j < i}) = k - 1
    IN  [k \in 1..(Cardinality(at) + 1) |-> SubSeq(s, cut(k - 1) + 1, cut(k) - 1)]

RECURSIVE Flatten(_)
Flatten(ss) == IF ss = <<>> THEN <<>> ELSE Head(ss) \o Flatten(Tail(ss))

-----------------------------------------------------------------------------
(* The wire: JSON documents of the Responses stream *)

NoItem == [type |-> "", call_id |-> "", id |-> "", name |-> "",
           arguments |-> <<>>, content |-> <<>>]

NoEvent == [type |-> "", delta |-> <<>>, call_id |-> "", item_id |-> "", item |-> NoItem]

TextDelta(d) == [NoEvent EXCEPT !.type = "response.output_text.delta", !.delta = d]

ItemAdded(cid, nm) ==
    [NoEvent EXCEPT !.type = "response.output_item.added",
                    !.item = [NoItem EXCEPT !.type = "function_call", !.call_id = cid,
                                            !.name = nm]]

ArgsDelta(cid, d) ==
    [NoEvent EXCEPT !.type = "response.function_call_arguments.delta",
                    !.call_id = cid, !.delta = d]

\* args is <<>> when the item carries no arguments field, <<a>> when it carries a
CallDone(cid, nm, args) ==
    [NoEvent EXCEPT !.type = "response.output_item.done",
                    !.item = [NoItem EXCEPT !.type = "function_call", !.call_id = cid,
                                            !.name = nm, !.arguments = args]]

MessageDone(t) ==
    [NoEvent EXCEPT !.type = "response.output_item.done",
                    !.item = [NoItem EXCEPT !.type = "message",
                                            !.content = <<[type |-> "output_text",
                                                           text |-> t]>>]]

\* argument texts: {} , {"code":..} abbreviated {c} , null abbreviated n , and a
\* truncated document
ArgsEmpty == <<"{", "}">>
ArgsCode == <<"{", "c", "}">>
ArgsNull == <<"n">>
ArgsBroken == <<"{">>

\* JSON.parse on a stream payload: defined on these documents, throws elsewhere
JSONDocs ==
    (<<"T", "a">> :> TextDelta(<<"a">>)) @@
    (<<"T", "b">> :> TextDelta(<<"b">>)) @@
    (<<"A", "1">> :> ItemAdded("c1", "roblox_run_code")) @@
    (<<"G", "1">> :> ArgsDelta("c1", <<"{", "c">>)) @@
    (<<"g", "1">> :> ArgsDelta("c1", <<"}">>)) @@
    (<<"D", "1">> :> CallDone("c1", "roblox_run_code", <<>>)) @@
    (<<"F", "1">> :> CallDone("c1", "roblox_run_code", <<ArgsCode>>)) @@
    (<<"N", "1">> :> CallDone("c1", "roblox_run_code", <<ArgsNull>>)) @@
    (<<"U", "2">> :> CallDone("c2", "no_such_tool", <<ArgsCode>>)) @@
    (<<"X", "3">> :> CallDone("c3", "roblox_run_code", <<ArgsBroken>>)) @@
    (<<"P", "4">> :> CallDone("c4", "toString", <<ArgsEmpty>>)) @@
    (<<"M", "a">> :> MessageDone(<<"a">>)) @@
    (<<"M", "b">> :> MessageDone(<<"b">>))

\* a payload that is not a JSON document
BadJSON == <<"?", "?">>

\* one SSE line carrying payload p
Frame(p) == DataPrefix \o p \o <<NL>>

\* the blank line that separates SSE events: a line without the data prefix
BlankLine == <<NL>>

-----------------------------------------------------------------------------
(* makeCodexRequest: the read loop *)

StreamStart == [text |-> <<>>, buffer |-> <<>>, toolCalls |-> <<>>,
                pendingToolCalls |-> <<>>, emitted |-> <<>>]

HasPending(p, cid) == \E i \in 1..Len(p) : p[i].id = cid

\* Map.set
MapSet(p, cid, v) ==
    IF HasPending(p, cid)
    THEN [i \in 1..Len(p) |-> IF p[i].id = cid
                              THEN [id |-> cid, name |-> v.name, arguments |-> v.arguments]
                              ELSE p[i]]
    ELSE Append(p, [id |-> cid, name |-> v.name, arguments |-> v.arguments])

\* Map.delete
MapDelete(p, cid) == SelectSeq(p, LAMBDA e : e.id # cid)

\* a || b on strings: the empty string is falsy
OrElse(a, b) == IF a = "" THEN b ELSE a

\* the delta added to text without the onToken call
OnTextDelta_Silent(st, ev) ==
    IF ev.type = "response.output_text.delta"
    THEN [st EXCEPT !.text = @ \o ev.delta]
    ELSE st

\* `if (parsed.type === "response.output_text.delta")`
OnTextDelta(st, ev) ==
    IF ev.type = "response.output_text.delta"
    THEN [st EXCEPT !.text = @ \o ev.delta, !.emitted = Append(@, ev.delta)]
    ELSE st

\* `if (parsed.type === "response.output_item.added" && item.type === "function_call")`
OnItemAdded(st, ev) ==
    IF ev.type = "response.output_item.added" /\ ev.item.type = "function_call"
    THEN [st EXCEPT !.pendingToolCalls =
              MapSet(@, OrElse(ev.item.call_id, ev.item.id),
                     [name |-> ev.item.name, arguments |-> <<>>])]
    ELSE st

\* `if (parsed.type === "response.function_call_arguments.delta")`
OnArgumentsDelta(st, ev) ==
    IF ev.type = "response.function_call_arguments.delta"
    THEN LET callId == OrElse(ev.call_id, ev.item_id)
         IN  [st EXCEPT !.pendingToolCalls =
                  [i \in 1..Len(@) |-> IF @[i].id = callId
                                       THEN [@[i] EXCEPT !.arguments = @ \o ev.delta]
                                       ELSE @[i]]]
    ELSE st

\* item.arguments || "{}"
FinalArguments(item) ==
    IF item.arguments = <<>> \/ item.arguments[1] = <<>>
    THEN ArgsEmpty
    ELSE item.arguments[1]

\* `if (parsed.type === "response.output_item.done" && item.type === "function_call")`
OnCallDone(st, ev) ==
    IF ev.type = "response.output_item.done" /\ ev.item.type = "function_call"
    THEN LET callId == OrElse(ev.item.call_id, ev.item.id)
         IN  [st EXCEPT !.toolCalls =
                            Append(@, [id |-> callId, name |-> ev.item.name,
                                       arguments |-> FinalArguments(ev.item)]),
                        !.pendingToolCalls = MapDelete(@, callId)]
    ELSE st

RECURSIVE OnContentParts(_, _)
\* `for (const part of content)`
OnContentParts(st, parts) ==
    IF parts = <<>> THEN st
    ELSE LET part == Head(parts)
             nxt == IF /\ part.type = "output_text"
                       /\ part.text # <<>>
                       /\ ~Includes(st.text, part.text)
                    THEN [st EXCEPT !.text = @ \o part.text,
                                    !.emitted = Append(@, part.text)]
                    ELSE st
         IN  OnContentParts(nxt, Tail(parts))

\* `if (parsed.type === "response.output_item.done" && parsed.item?.content)`
OnItemContent(st, ev) ==
    IF ev.type = "response.output_item.done" /\ ev.item.content # <<>>
    THEN OnContentParts(st, ev.item.content)
    ELSE st

\* the body of the try block, for a payload that parsed
HandleEvent(st, ev) ==
    OnItemContent(OnCallDone(OnArgumentsDelta(OnItemAdded(OnTextDelta(st, ev), ev), ev), ev), ev)

\* the rejected payload taken for text
OnParseError_AsText(st, data) == [st EXCEPT !.text = @ \o data]

\* what the catch block does with a payload JSON.parse rejects: nothing
OnParseError(st, data) == st

\* the body of `for (const line of lines)`
ProcessLine(st, line) ==
    IF ~StartsWith(line, DataPrefix) THEN st
    ELSE LET data == SubSeq(line, Len(DataPrefix) + 1, Len(line))
         IN  IF data = DoneSentinel THEN st
             ELSE IF data \notin DOMAIN JSONDocs THEN OnParseError(st, data)
             ELSE HandleEvent(st, JSONDocs[data])

RECURSIVE ProcessLines(_, _)
ProcessLines(st, lines) ==
    IF lines = <<>> THEN st
    ELSE ProcessLines(ProcessLine(st, Head(lines)), Tail(lines))

\* the tail of the chunk thrown away
Remainder_Dropped(parts) == <<>>

\* buffer = lines.pop() || ""
Remainder(parts) == parts[Len(parts)]

\* one round of the while loop with a chunk: decode, split, keep the tail, process
ProcessChunk(st, chunk) ==
    LET parts == Split(st.buffer \o chunk, NL)
        lines == SubSeq(parts, 1, Len(parts) - 1)
    IN  ProcessLines([st EXCEPT !.buffer = Remainder(parts)], lines)

-----------------------------------------------------------------------------
(* The tool registry and executeTool *)

MAX_ITERATIONS == 10

\* the keys of robloxTools the modelled server asks for
RobloxTools == {"roblox_run_code", "roblox_get_selection"}

\* names every object literal inherits from Object.prototype
ObjectPrototypeKeys == {"constructor", "toString", "valueOf", "hasOwnProperty",
                        "__proto__"}

\* robloxTools[toolName]: the tool, a member inherited from Object.prototype, or
\* undefined
ToolFn(toolName) ==
    IF toolName \in RobloxTools THEN "tool"
    ELSE IF toolName \in ObjectPrototypeKeys THEN "inherited"
    ELSE "undefined"

\* toolObj.execute is there: every entry of robloxTools is built by
\* tool({... execute ...}), no member of Object.prototype has one
HasExecute(toolFn) == toolFn = "tool"

\* JSON.parse on an argument text: the parsed value, or a throw
ArgDocs == (ArgsEmpty :> "{}") @@ (ArgsCode :> "{code}") @@ (ArgsNull :> "null")

\* args left undefined when the text does not parse
ParseArguments_NoDefault(text) ==
    IF text \in DOMAIN ArgDocs THEN ArgDocs[text] ELSE "undefined"

\* `let args = {}; try { args = JSON.parse(toolCall.arguments) } catch {}`
ParseArguments(text) == IF text \in DOMAIN ArgDocs THEN ArgDocs[text] ELSE "{}"

\* toolObj.execute(args): the handlers destructure their argument, which throws a
\* TypeError on null; otherwise they return a value computed from the arguments
Handler(toolName, args) ==
    IF toolName = "roblox_run_code" /\ args = "null"
    THEN [threw |-> TRUE, value |-> "TypeError: Cannot destructure property 'code'"]
    ELSE [threw |-> FALSE, value |-> [tool |-> toolName, input |-> args]]

\* the exception let through
OnHandlerThrow_Propagates(cause) == [returned |-> FALSE, value |-> cause]

\* the catch block of executeTool
OnHandlerThrow(cause) == [returned |-> TRUE, value |-> [error |-> <<"String", cause>>]]

\* the branch of executeTool for a name that is not a key of robloxTools
OnUnknownTool(toolName) ==
    [returned |-> TRUE, value |-> [error |-> <<"Unknown tool: ", toolName>>]]

\* executeTool: [returned |-> TRUE, value] or, were it to throw, [returned |-> FALSE]
ExecuteTool(toolName, args) ==
    IF ToolFn(toolName) = "undefined" THEN OnUnknownTool(toolName)
    ELSE IF ~HasExecute(ToolFn(toolName))
    THEN [returned |-> TRUE,
          value |-> [error |-> <<"Tool ", toolName, " has no execute function">>]]
    ELSE LET r == Handler(toolName, args)
         IN  IF r.threw THEN OnHandlerThrow(r.value)
             ELSE [returned |-> TRUE, value |-> r.value]

\* JSON.stringify(output)
Stringify(v) == <<"json", v>>

-----------------------------------------------------------------------------
(* The transcript *)

Roles == {"user", "assistant"}

Digits == <<"1", "2", "3", "4", "5">>

\* the messages codexChat can be called with: any roles, the i-th text is "m<i>"
Seeds ==
    UNION {{[i \in 1..n |-> [role |-> r[i], content |-> <<"m", Digits[i]>>]] :
               r \in [1..n -> Roles]} : n \in 0..MaxSeed}

\* the seed built newest first
convertToCodexInput_Reversed(msgs) ==
    [i \in 1..Len(msgs) |->
        LET msg == msgs[Len(msgs) + 1 - i]
        IN  [role |-> msg.role,
             content |-> <<[type |-> IF msg.role = "user" THEN "input_text"
                                     ELSE "output_text",
                            text |-> msg.content]>>]]

RECURSIVE convertToCodexInput(_)
convertToCodexInput(msgs) ==
    IF msgs = <<>> THEN <<>>
    ELSE LET msg == Head(msgs)
             item == IF msg.role = "user"
                     THEN <<[role |-> "user",
                             content |-> <<[type |-> "input_text", text |-> msg.content]>>]>>
                     ELSE IF msg.role = "assistant"
                     THEN <<[role |-> "assistant",
                             content |-> <<[type |-> "output_text", text |-> msg.content]>>]>>
                     ELSE <<>>
         IN  item \o convertToCodexInput(Tail(msgs))

FunctionCall(tc) ==
    [type |-> "function_call", call_id |-> tc.id, name |-> tc.name,
     arguments |-> tc.arguments]

\* the output filed under no call id
FunctionCallOutput_NoId(cid, out) ==
    [type |-> "function_call_output", call_id |-> "", output |-> out]

FunctionCallOutput(cid, out) ==
    [type |-> "function_call_output", call_id |-> cid, output |-> out]

Advisory == <<NL, NL, "[Reached maximum tool call limit]">>

-----------------------------------------------------------------------------
(* Response bodies *)

\* a final answer: a text increment, the same text again in the completed item, and
\* a completed item with further text
BodyText == Frame(<<"T", "a">>) \o Frame(<<"M", "a">>) \o Frame(<<"M", "b">>)
            \o Frame(DoneSentinel)

\* text and two tool calls: an unregistered name, then a registered tool
BodyTwo == Frame(<<"T", "b">>) \o Frame(<<"U", "2">>) \o Frame(<<"F", "1">>)

\* three tool calls: a handler that throws, argument text that is not JSON, and a
\* name that is no tool but a member of Object.prototype
BodyFaulty == Frame(<<"N", "1">>) \o BlankLine \o Frame(<<"X", "3">>)
              \o Frame(<<"P", "4">>) \o Frame(DoneSentinel)

LoopBodies == {BodyText, BodyTwo, BodyFaulty}

StreamLines ==
    {Frame(p) : p \in {<<"T", "a">>, <<"A", "1">>, <<"G", "1">>, <<"D", "1">>,
                       <<"F", "1">>, BadJSON, DoneSentinel}}
    \cup {BlankLine}

\* every sequence of at most MaxFrames lines
StreamBodies == UNION {{Flatten(ls) : ls \in [1..n -> StreamLines]} : n \in 0..MaxFrames}

-----------------------------------------------------------------------------
(* src/lib/auth/codex.ts: claims, token responses, credentials *)

\* undefined and the empty string: one falsy value to `||`, `?.` and `!`
Undefined == ""

\* null
Null == <<>>

\* an IdTokenClaims object without any of the three claims; the claim
\* "https://api.openai.com/auth" is the field openai_auth, an absent object is <<>>
\* and a present one is <<object>>
NoClaims == [chatgpt_account_id |-> Undefined, openai_auth |-> <<>>, organizations |-> <<>>]

\* `claims["https://api.openai.com/auth"]?.chatgpt_account_id`
NestedAccountId(c) ==
    IF c.openai_auth = <<>> THEN Undefined ELSE c.openai_auth[1].chatgpt_account_id

\* `claims.organizations?.[0]?.id`
FirstOrganizationId(c) ==
    IF c.organizations = <<>> THEN Undefined
    ELSE IF c.organizations[1] = <<>> THEN Undefined
    ELSE c.organizations[1][1].id

\* the organizations list consulted before the nested claim
extractAccountIdFromClaims_OrgsFirst(c) ==
    OrElse(c.chatgpt_account_id, OrElse(FirstOrganizationId(c), NestedAccountId(c)))

\* the `||` chain of extractAccountIdFromClaims
extractAccountIdFromClaims(c) ==
    OrElse(c.chatgpt_account_id, OrElse(NestedAccountId(c), FirstOrganizationId(c)))

\* the organizations lists of at most MaxOrgs entries
OrgLists == UNION {[1..n -> [id : {"org-1", "org-2"}]] : n \in 0..MaxOrgs}

\* every combination of absent and present claims
AllClaims ==
    [chatgpt_account_id : {Undefined, "acct-1", "acct-3"},
     openai_auth : {<<>>, <<[chatgpt_account_id |-> Undefined]>>,
                    <<[chatgpt_account_id |-> "acct-2"]>>},
     organizations : {<<>>} \cup {<<l>> : l \in OrgLists}]

\* JSON.parse(atob(payload)) restricted to the id tokens the modelled server issues:
\* decodeJwt throws on every token outside the domain
JwtDocs ==
    [J1 |-> [NoClaims EXCEPT !.chatgpt_account_id = "acct-1"],
     J2 |-> [NoClaims EXCEPT !.organizations = <<<<[id |-> "org-1"]>>>>]]

decodeJwtThrows(token) == token \notin DOMAIN JwtDocs

decodeJwt(token) == JwtDocs[token]

\* `5 * 60 * 1000`
bufferMs == 5 * 60 * 1000

\* the instants at which Date.now() is read, in milliseconds: the start, one second
\* later, and the margin later
Clock == {0, 1000, bufferMs}

\* the tokens the token endpoint issues in its k-th exchange
AccessTokens == <<"a1", "a2", "a3", "a4", "a5", "a6">>

RefreshTokens == <<"r1", "r2", "r3", "r4", "r5", "r6">>

\* a TokenResponse of the k-th exchange: the tokens are new, expires_in is 301
\* seconds, refresh_token and id_token are as given
TokenResponse(k, withRefresh, idToken) ==
    [access_token |-> AccessTokens[k],
     refresh_token |-> IF withRefresh THEN RefreshTokens[k] ELSE Undefined,
     expires_in |-> 301,
     id_token |-> idToken]

\* the TokenResponse bodies of the k-th exchange when it is a refresh: complete with a
\* well-formed id_token, without refresh_token and id_token (the code falls back to
\* the stored refresh token), or with an id_token that is not a JWT
RefreshResponses(k) ==
    {TokenResponse(k, TRUE, "J1"), TokenResponse(k, FALSE, Undefined),
     TokenResponse(k, TRUE, "bad")}

\* the TokenResponse bodies of the k-th exchange when it redeems an authorization
\* code: the scope asks for offline_access, so a refresh token is issued
LoginResponses(k) ==
    {TokenResponse(k, TRUE, "J2"), TokenResponse(k, TRUE, Undefined),
     TokenResponse(k, TRUE, "bad")}

\* the margin left out
IsFresh_NoMargin(auth, t) == auth.expires > t

\* `auth.expires - bufferMs > Date.now()`
IsFresh(auth, t) == auth.expires - bufferMs > t

\* the refresh token of the response taken as it is
RefreshedAuth_NoFallback(auth, response, t) ==
    [type |-> "oauth", access |-> response.access_token, refresh |-> response.refresh_token,
     expires |-> t + response.expires_in * 1000, accountId |-> auth.accountId]

\* newAuth of getValidAccessToken; called when decodeJwt does not throw
RefreshedAuth(auth, response, t) ==
    [type |-> "oauth",
     access |-> response.access_token,
     refresh |-> OrElse(response.refresh_token, auth.refresh),
     expires |-> t + response.expires_in * 1000,
     accountId |-> IF response.id_token # Undefined
                   THEN OrElse(extractAccountIdFromClaims(decodeJwt(response.id_token)),
                               auth.accountId)
                   ELSE auth.accountId]

\* auth of handleOAuthCallback; called when decodeJwt does not throw
LoginAuth(response, t) ==
    [type |-> "oauth",
     access |-> response.access_token,
     refresh |-> response.refresh_token,
     expires |-> t + response.expires_in * 1000,
     accountId |-> IF response.id_token # Undefined
                   THEN extractAccountIdFromClaims(decodeJwt(response.id_token))
                   ELSE Undefined]

\* localStorage after saveAuth: JSON.stringify and JSON.parse give the record back,
\* an undefined accountId being left out and read as undefined
saveAuth(auth) == <<auth>>

\* localStorage after clearAuth
clearAuth == <<>>

\* the credentials a behaviour may start with: none, or a record whose expiry is
\* exactly the margin away, or one millisecond more
StoredAtStart ==
    {clearAuth} \cup
    {saveAuth([type |-> "oauth", access |-> "a0", refresh |-> "r0", expires |-> e,
               accountId |-> a]) : e \in {bufferMs, bufferMs + 1},
                                   a \in {Undefined, "acct-0"}}

\* the callers of getValidAccessToken: makeCodexRequest of the running codexChat and
\* codexFetch
Callers == {"chat", "fetch"}

\* no getValidAccessToken call in progress, none returned yet; at is the number of
\* the refresh exchange of the caller's latest call that made one
IdleCall == [pc |-> "idle", auth |-> <<>>, at |-> 0, result |-> <<>>]

\* no handleOAuthCallback call yet
IdleLogin == [pc |-> "idle", code |-> Undefined, state |-> Undefined, at |-> 0,
              outcome |-> Undefined]

\* sessionStorage without a pending login
NoSession == [oauth_state |-> Undefined, oauth_pkce |-> Undefined]

\* the authentication state of a behaviour that does not authenticate
AuthIdle ==
    /\ now = 0
    /\ localStorage = clearAuth
    /\ sessionStorage = NoSession
    /\ call = [c \in Callers |-> IdleCall]
    /\ login = IdleLogin
    /\ network = <<>>

\* no extractAccountIdFromClaims call
ClaimsIdle ==
    /\ claims = NoClaims
    /\ accountId = <<>>

-----------------------------------------------------------------------------
(* src/lib/models: the provider data, the cache, the models store *)

CACHE_TTL_MS == 60 * 60 * 1000

\* the instants at which the models store is called
ModelsClock == {0, 1000, CACHE_TTL_MS}

\* three of the ids of CODEX_ALLOWED_MODELS
CODEX_ALLOWED_MODELS == {"gpt-4o", "gpt-4o-mini", "o3"}

\* the first two entries of FALLBACK_CODEX_MODELS
FALLBACK_CODEX_MODELS ==
    <<[id |-> "gpt-5.2", name |-> "GPT-5.2", reasoning |-> FALSE, provider |-> "openai"],
      [id |-> "gpt-5.2-chat-latest", name |-> "GPT-5.2 Latest", reasoning |-> FALSE,
       provider |-> "openai"]>>

\* an entry of `models` of a provider: its key and the fields modelToDisplay reads
Model(id, name, reasoning) == [id |-> id, name |-> name, reasoning |-> reasoning]

\* JSON null as the body of the answer of models.dev: a value without properties
NullData == [null |-> TRUE]

\* answers of models.dev: no openai provider, an openai provider none of whose models
\* is allowed, two with allowed models (in the order of the keys), and null
ResponseData ==
    {[openai |-> Null],
     [openai |-> <<[models |-> <<Model("dall-e-3", "DALL-E 3", FALSE)>>]>>],
     [openai |-> <<[models |-> <<Model("o3", "o3", TRUE),
                                  Model("gpt-4o-mini", "GPT-4o Mini", FALSE),
                                  Model("dall-e-3", "DALL-E 3", FALSE),
                                  Model("gpt-4o", "GPT-4o", FALSE)>>]>>],
     [openai |-> <<[models |-> <<Model("gpt-4o", "GPT-4o", FALSE)>>]>>],
     NullData}

\* what the fetch of models.dev rejects with, or what fetchAllModels throws
Rejections == {[isError |-> TRUE, message |-> "Failed to fetch models: 500"],
               [isError |-> FALSE, message |-> "network down"]}

\* the names of the models in the order of localeCompare
Collation == <<"DALL-E 3", "GPT-4o", "GPT-4o Mini", "GPT-5.2", "GPT-5.2 Latest", "o3">>

localeCompare(a, b) ==
    (CHOOSE i \in 1..Len(Collation) : Collation[i] = a)
    - (CHOOSE i \in 1..Len(Collation) : Collation[i] = b)

\* the comparator of extractCodexModels: non-reasoning first, then by name
CompareModels(a, b) ==
    IF a.reasoning # b.reasoning
    THEN IF a.reasoning THEN 1 ELSE -1
    ELSE localeCompare(a.name, b.name)

\* Array.prototype.sort with that comparator: a stable sort
SortModels(list) ==
    LET Before(j, i) == \/ CompareModels(list[j], list[i]) < 0
                        \/ CompareModels(list[j], list[i]) = 0 /\ j < i
        Place(i) == 1 + Cardinality({j \in 1..Len(list) : Before(j, i)})
    IN  [p \in 1..Len(list) |-> list[CHOOSE i \in 1..Len(list) : Place(i) = p]]

modelToDisplay(id, model, provider) ==
    [id |-> id, name |-> model.name, reasoning |-> model.reasoning, provider |-> provider]

\* extractCodexModels throws: `providers.openai` of null
extractCodexModelsThrows(providers) == providers = NullData

extractCodexModels(providers) ==
    IF providers.openai = Null
    THEN FALLBACK_CODEX_MODELS
    ELSE LET allowed == SelectSeq(providers.openai[1].models,
                                  LAMBDA m : m.id \in CODEX_ALLOWED_MODELS)
             list == SortModels([i \in 1..Len(allowed) |->
                                    modelToDisplay(allowed[i].id, allowed[i], "openai")])
         IN  IF Len(list) > 0 THEN list ELSE FALLBACK_CODEX_MODELS

\* isCacheValid
isCacheValid(cache, t) == cache # Null /\ t - cache[1].timestamp < CACHE_TTL_MS

\* saveModelsToCache
saveModelsToCache(data, t) == <<[data |-> data, timestamp |-> t]>>

\* the state the store is created with
ModelsAtStart ==
    [providers |-> Null, codexModels |-> FALLBACK_CODEX_MODELS, isLoading |-> FALSE,
     lastFetched |-> Null, error |-> Null]

\* no guard: every call fetches
AlreadyLoading_Never(m) == FALSE

\* `if (get().isLoading) return;`
AlreadyLoading(m) == m.isLoading

\* fetchModels up to `await getModelsWithCache()`, which reads the cache and, unless
\* it is valid, calls fetch at once
FetchModelsCall(cache) ==
    IF AlreadyLoading(models)
    THEN UNCHANGED <<models, fetching>>
    ELSE /\ models' = [models EXCEPT !.isLoading = TRUE, !.error = Null]
         /\ fetching' = Append(fetching,
                [cached |-> cache, net |-> ~isCacheValid(cache, now),
                 held |-> models.codexModels])

\* the success branch of fetchModels
Loaded(m, data, t) ==
    [providers |-> <<data>>, codexModels |-> extractCodexModels(data),
     lastFetched |-> <<t>>, isLoading |-> FALSE, error |-> Null]

\* the list is always replaced by the fallback list
KeptModels_Fallback(m) == FALLBACK_CODEX_MODELS

\* `get().codexModels.length > 0 ? get().codexModels : FALLBACK_CODEX_MODELS`
KeptModels(m) == IF Len(m.codexModels) > 0 THEN m.codexModels ELSE FALLBACK_CODEX_MODELS

\* `error instanceof Error ? error.message : "Failed to fetch models"`
ErrorMessage(rejection) ==
    IF rejection.isError THEN rejection.message ELSE "Failed to fetch models"

\* the catch block of fetchModels
Failed(m, rejection) ==
    [m EXCEPT !.isLoading = FALSE, !.error = <<ErrorMessage(rejection)>>,
              !.codexModels = KeptModels(m)]

\* getModelsWithCache resolved to data: the rest of the try block of fetchModels, or
\* its catch block when extractCodexModels throws
Settled(m, data, t) ==
    IF extractCodexModelsThrows(data)
    THEN Failed(m, [isError |-> TRUE, message |-> "Cannot read properties of null"])
    ELSE Loaded(m, data, t)

\* clearModels
Cleared(m) ==
    [m EXCEPT !.providers = Null, !.codexModels = FALLBACK_CODEX_MODELS,
              !.lastFetched = Null, !.error = Null]

\* the stores as they are created when nothing is persisted
StoresIdle ==
    /\ oauthAuth = Null
    /\ models = ModelsAtStart
    /\ modelsCache = Null
    /\ fetching = <<>>

-----------------------------------------------------------------------------
(* src/lib/ai/providers.ts chat, Home: the callbacks of a run *)

\* the members of ChatCallbacks
ChatCallbacks == {"onToken", "onToolCall", "onToolResult", "onFinish", "onError"}

\* `codexChat(model, messages, { onToken, onFinish, onError })`: what chat() passes on
ChatForwards == {"onToken", "onFinish", "onError"}

\* Home before the first submit
HomeIdle == [isStreaming |-> FALSE, error |-> Null, content |-> <<>>, toolCalls |-> <<>>]

\* codexChat called by a caller of its own, with every callback
DirectCall ==
    /\ home = HomeIdle
    /\ callbacks = [via |-> "codexChat", has |-> ChatCallbacks]
    /\ running = 0

\* onToken of handleSubmit: `fullText += token; updateMessage(assistantId, fullText)`
HomeOnToken(h, increments) == [h EXCEPT !.content = @ \o Flatten(increments)]

\* onToolCall of handleSubmit: addToolCall, then updateToolCall to "running"
HomeOnToolCall(h, e) ==
    [h EXCEPT !.toolCalls = Append(@, [id |-> e.id, name |-> e.name, args |-> e.input,
                                       status |-> "running", result |-> Null])]

\* onToolResult of handleSubmit: updateToolCall to "complete" with the result
HomeOnToolResult(h, e) ==
    [h EXCEPT !.toolCalls =
        [i \in 1..Len(@) |-> IF @[i].id = e.id
                             THEN [@[i] EXCEPT !.status = "complete",
                                               !.result = <<e.output>>]
                             ELSE @[i]]]

\* onFinish of handleSubmit
HomeOnFinish(h) == [h EXCEPT !.isStreaming = FALSE]

\* onError of handleSubmit, and its catch block: codexChat rethrows what it reports
HomeOnError(h, message) == [h EXCEPT !.error = <<message>>, !.isStreaming = FALSE]

\* the callbacks a step of codexChat calls, as far as its caller passed them on; a
\* run started by Home ends for it when codexChat returns or throws
HomeCallbacks ==
    LET has(name) == callbacks.via = "chat" /\ name \in callbacks.has
        newTokens == SubSeq(tokens', Len(tokens) + 1, Len(tokens'))
        newEvents == SubSeq(toolEvents', Len(toolEvents) + 1, Len(toolEvents'))
        calls == SelectSeq(newEvents, LAMBDA e : e.ev = "onToolCall")
        results == SelectSeq(newEvents, LAMBDA e : e.ev = "onToolResult")
        h1 == IF has("onToken") /\ newTokens # <<>>
              THEN HomeOnToken(home, newTokens) ELSE home
        h2 == IF has("onToolCall") /\ calls # <<>>
              THEN HomeOnToolCall(h1, calls[1]) ELSE h1
        h3 == IF has("onToolResult") /\ results # <<>>
              THEN HomeOnToolResult(h2, results[1]) ELSE h2
        h4 == IF has("onFinish") /\ finished' # finished THEN HomeOnFinish(h3) ELSE h3
        h5 == IF callbacks.via = "chat" /\ errors' # errors
              THEN HomeOnError(h4, errors'[Len(errors')]) ELSE h4
    IN  /\ home' = h5
        /\ running' = IF callbacks.via = "chat" /\ pc' \in {"done", "error"}
                         /\ pc \notin {"done", "error"}
                      THEN running - 1 ELSE running
        /\ UNCHANGED callbacks

-----------------------------------------------------------------------------
(* codexChat *)

InitWith(msgs) ==
    /\ pc = "loop"
    /\ messages = msgs
    /\ conversationHistory = convertToCodexInput(msgs)
    /\ fullText = <<>>
    /\ iteration = 0
    /\ body = <<>>
    /\ pos = 0
    /\ stream = StreamStart
    /\ turnCalls = <<>>
    /\ callIdx = 0
    /\ requests = <<>>
    /\ turns = <<>>
    /\ tokens = <<>>
    /\ toolEvents = <<>>
    /\ finished = <<>>
    /\ errors = <<>>

Init ==
    /\ \E msgs \in Seeds : InitWith(msgs)
    /\ AuthIdle /\ ClaimsIdle /\ StoresIdle /\ DirectCall

\* the errors makeCodexRequest throws before it reads the stream; the first is
\* thrown before fetch is called
RequestErrors == {"Not authenticated with ChatGPT Plus/Pro", "fetch rejected",
                  "Codex API error", "No response body"}

\* an off-by-one ceiling
LoopContinues_OffByOne(iter) == iter <= MAX_ITERATIONS

\* the while condition
LoopContinues(iter) == iter < MAX_ITERATIONS

\* the calls handled last to first
CallsToHandle_Reversed(result) ==
    [i \in 1..Len(result.toolCalls) |-> result.toolCalls[Len(result.toolCalls) + 1 - i]]

\* `for (const toolCall of result.toolCalls)`: the calls in the order they are handled
CallsToHandle(result) == result.toolCalls

\* the next request sent while the calls of the turn are still being handled
SendOk_Early(bodies) ==
    /\ pc \in {"loop", "exec"}
    /\ LoopContinues(iteration)
    /\ iteration' = iteration + 1
    /\ requests' = Append(requests, conversationHistory)
    /\ \E b \in bodies : body' = b
    /\ pos' = 0
    /\ stream' = StreamStart
    /\ pc' = "streaming"
    /\ UNCHANGED sideVars
    /\ UNCHANGED <<messages, conversationHistory, fullText, turnCalls, callIdx, turns,
                   tokens, toolEvents, finished, errors>>
    /\ HomeCallbacks

\* `while (iteration < MAX_ITERATIONS) { iteration++; makeCodexRequest(...)`:
\* the request is sent and the response is ok
SendOk(bodies) ==
    /\ pc = "loop"
    /\ LoopContinues(iteration)
    /\ iteration' = iteration + 1
    /\ requests' = Append(requests, conversationHistory)
    /\ \E b \in bodies : body' = b
    /\ pos' = 0
    /\ stream' = StreamStart
    /\ pc' = "streaming"
    /\ UNCHANGED sideVars
    /\ UNCHANGED <<messages, conversationHistory, fullText, turnCalls, callIdx, turns,
                   tokens, toolEvents, finished, errors>>
    /\ HomeCallbacks

\* the failed request reported and the loop entered again
SendFail_Retries(err) ==
    /\ pc = "loop"
    /\ LoopContinues(iteration)
    /\ iteration' = iteration + 1
    /\ requests' = Append(requests, conversationHistory)
    /\ errors' = Append(errors, err)
    /\ pc' = "loop"
    /\ UNCHANGED sideVars
    /\ UNCHANGED <<messages, conversationHistory, fullText, body, pos, stream, turnCalls,
                   callIdx, turns, tokens, toolEvents, finished>>
    /\ HomeCallbacks

\* makeCodexRequest throws and the catch block of codexChat reports it
SendFail(err) ==
    /\ pc = "loop"
    /\ LoopContinues(iteration)
    /\ iteration' = iteration + 1
    /\ requests' = IF err = "Not authenticated with ChatGPT Plus/Pro"
                   THEN requests
                   ELSE Append(requests, conversationHistory)
    /\ errors' = Append(errors, err)
    /\ pc' = "error"
    /\ UNCHANGED sideVars
    /\ UNCHANGED <<messages, conversationHistory, fullText, body, pos, stream, turnCalls,
                   callIdx, turns, tokens, toolEvents, finished>>
    /\ HomeCallbacks

\* `const { done, value } = await reader.read()` with done false and n characters
Read(n) ==
    /\ pc = "streaming"
    /\ n >= 1
    /\ pos + n <= Len(body)
    /\ LET st == ProcessChunk(stream, SubSeq(body, pos + 1, pos + n))
       IN  /\ stream' = st
           /\ tokens' = tokens \o SubSeq(st.emitted, Len(stream.emitted) + 1,
                                         Len(st.emitted))
    /\ pos' = pos + n
    /\ UNCHANGED sideVars
    /\ UNCHANGED <<pc, messages, conversationHistory, fullText, iteration, body,
                   turnCalls, callIdx, requests, turns, toolEvents, finished, errors>>
    /\ HomeCallbacks

\* the response arrives in chunks of any sizes
ReadAny == \E n \in 1..(Len(body) - pos) : Read(n)

\* the response arrives in one chunk
ReadWhole == Read(Len(body) - pos)

\* `if (done) break; ... return { text, toolCalls }`
ReadDone ==
    /\ pc = "streaming"
    /\ pos = Len(body)
    /\ pc' = "returned"
    /\ turns' = Append(turns, [text |-> stream.text, toolCalls |-> stream.toolCalls])
    /\ UNCHANGED sideVars
    /\ UNCHANGED <<messages, conversationHistory, fullText, iteration, body, pos, stream,
                   turnCalls, callIdx, requests, tokens, toolEvents, finished, errors>>
    /\ HomeCallbacks

\* the text codexChat reports: the advisory is appended `if (iteration >= MAX_ITERATIONS)`
FinalText(text, iter) == IF iter >= MAX_ITERATIONS THEN text \o Advisory ELSE text

\* the statements after the while loop
Finish(text) ==
    /\ fullText' = FinalText(text, iteration)
    /\ finished' = Append(finished, FinalText(text, iteration))
    /\ pc' = "done"

\* `fullText += result.text; if (result.toolCalls.length === 0) break;`
AfterRequest ==
    /\ pc = "returned"
    /\ IF stream.toolCalls = <<>>
       THEN /\ Finish(fullText \o stream.text)
            /\ UNCHANGED <<turnCalls, callIdx>>
       ELSE /\ fullText' = fullText \o stream.text
            /\ turnCalls' = CallsToHandle(stream)
            /\ callIdx' = 1
            /\ pc' = "exec"
            /\ UNCHANGED finished
    /\ UNCHANGED sideVars
    /\ UNCHANGED <<messages, conversationHistory, iteration, body, pos, stream, requests,
                   turns, tokens, toolEvents, errors>>
    /\ HomeCallbacks

\* the for loop body up to `await executeTool(...)`
ExecStart ==
    /\ pc = "exec"
    /\ LET toolCall == turnCalls[callIdx]
           args == ParseArguments(toolCall.arguments)
       IN  /\ conversationHistory' = Append(conversationHistory, FunctionCall(toolCall))
           /\ toolEvents' = toolEvents \o
                  <<[ev |-> "onToolCall", id |-> toolCall.id, name |-> toolCall.name,
                     input |-> args],
                    [ev |-> "executeTool", id |-> toolCall.id, name |-> toolCall.name,
                     input |-> args]>>
    /\ pc' = "awaitTool"
    /\ UNCHANGED sideVars
    /\ UNCHANGED <<messages, fullText, iteration, body, pos, stream, turnCalls, callIdx,
                   requests, turns, tokens, finished, errors>>
    /\ HomeCallbacks

\* the function_call_output pushed before onToolResult is called
FinishEvents_PushFirst(toolCall, output) ==
    <<[ev |-> "push", id |-> toolCall.id, output |-> Stringify(output)],
      [ev |-> "onToolResult", id |-> toolCall.id, output |-> output]>>

\* `callbacks?.onToolResult?.(toolCall.id, output); conversationHistory.push({type:
\* "function_call_output", ...})`: the two statements that follow executeTool, in the
\* order they run
FinishEvents(toolCall, output) ==
    <<[ev |-> "onToolResult", id |-> toolCall.id, output |-> output],
      [ev |-> "push", id |-> toolCall.id, output |-> Stringify(output)]>>

\* executeTool settles: onToolResult, the function_call_output, the next call
ExecFinish ==
    /\ pc = "awaitTool"
    /\ LET toolCall == turnCalls[callIdx]
           res == ExecuteTool(toolCall.name, ParseArguments(toolCall.arguments))
       IN  IF res.returned
           THEN /\ toolEvents' = toolEvents \o FinishEvents(toolCall, res.value)
                /\ conversationHistory' =
                       Append(conversationHistory,
                              FunctionCallOutput(toolCall.id, Stringify(res.value)))
                /\ callIdx' = callIdx + 1
                /\ pc' = IF callIdx = Len(turnCalls) THEN "loop" ELSE "exec"
                /\ UNCHANGED errors
           ELSE /\ errors' = Append(errors, "executeTool threw")
                /\ pc' = "error"
                /\ UNCHANGED <<toolEvents, conversationHistory, callIdx>>
    /\ UNCHANGED sideVars
    /\ UNCHANGED <<messages, fullText, iteration, body, pos, stream, turnCalls, requests,
                   turns, tokens, finished>>
    /\ HomeCallbacks

\* the while condition fails
LoopExit ==
    /\ pc = "loop"
    /\ ~LoopContinues(iteration)
    /\ Finish(fullText)
    /\ UNCHANGED sideVars
    /\ UNCHANGED <<messages, conversationHistory, iteration, body, pos, stream, turnCalls,
                   callIdx, requests, turns, tokens, toolEvents, errors>>
    /\ HomeCallbacks

Next ==
    \/ SendOk(LoopBodies)
    \/ \E err \in RequestErrors : SendFail(err)
    \/ ReadWhole
    \/ ReadDone
    \/ AfterRequest
    \/ ExecStart
    \/ ExecFinish
    \/ LoopExit

Spec == Init /\ [][Next]_vars

\* one request whose response is any stream body, delivered in chunks of any sizes
InitStream ==
    /\ InitWith(<<[role |-> "user", content |-> <<"m", "1">>]>>)
    /\ AuthIdle /\ ClaimsIdle /\ StoresIdle /\ DirectCall

NextStream ==
    \/ SendOk(StreamBodies)
    \/ ReadAny
    \/ ReadDone

SpecStream == InitStream /\ [][NextStream]_vars

-----------------------------------------------------------------------------
(* src/lib/auth/codex.ts: getValidAccessToken, the login flow, logout *)

NotAuthenticated == "Not authenticated with ChatGPT Plus/Pro"

\* the variables of the loop that authentication leaves alone
loopRest == <<messages, conversationHistory, fullText, body, pos, stream, turnCalls,
              callIdx, turns, tokens, toolEvents, finished>>

\* getValidAccessToken resolves to token and its caller goes on: without a token
\* makeCodexRequest (and codexFetch) throws, and codexChat reports it to onError; with
\* one, the completion request is sent
Resume(c, token) ==
    /\ call' = [call EXCEPT ![c] = [pc |-> "idle", auth |-> <<>>, at |-> @.at,
                                    result |-> <<token>>]]
    /\ IF c = "chat"
       THEN IF token = Null
            THEN /\ errors' = Append(errors, NotAuthenticated)
                 /\ pc' = "error"
                 /\ UNCHANGED requests
            ELSE /\ requests' = Append(requests, conversationHistory)
                 /\ pc' = "streaming"
                 /\ UNCHANGED errors
       ELSE UNCHANGED <<pc, requests, errors>>

\* getValidAccessToken up to `await refreshAccessToken(auth.refresh)`, or to its
\* return when it does not refresh; the chat caller enters it from the top of the
\* while loop of codexChat
GetValidAccessToken(c) ==
    /\ call[c].pc = "idle"
    /\ c = "chat" => (pc = "loop" /\ LoopContinues(iteration))
    /\ iteration' = IF c = "chat" THEN iteration + 1 ELSE iteration
    /\ IF localStorage = Null
       THEN /\ Resume(c, Null)
            /\ UNCHANGED network
       ELSE IF IsFresh(localStorage[1], now)
       THEN /\ Resume(c, <<localStorage[1].access>>)
            /\ UNCHANGED network
       ELSE /\ Len(network) < MaxExchanges
            /\ network' = Append(network,
                   [grant_type |-> "refresh_token", by |-> c,
                    refresh_token |-> localStorage[1].refresh])
            /\ call' = [call EXCEPT ![c] =
                   [pc |-> "refreshing", auth |-> localStorage,
                    at |-> Len(network) + 1, result |-> @.result]]
            /\ pc' = IF c = "chat" THEN "authenticating" ELSE pc
            /\ UNCHANGED <<requests, errors>>
    /\ UNCHANGED <<now, localStorage, sessionStorage, login, claimsVars, loopRest>>
    /\ UNCHANGED <<storeVars, appVars>>

\* the refresh exchange answers with a TokenResponse: the rest of the try block, or
\* the catch block when decodeJwt throws
RefreshSucceeds(c, response) ==
    /\ call[c].pc = "refreshing"
    /\ response \in RefreshResponses(call[c].at)
    /\ IF response.id_token # Undefined /\ decodeJwtThrows(response.id_token)
       THEN /\ localStorage' = clearAuth
            /\ Resume(c, Null)
       ELSE /\ localStorage' = saveAuth(RefreshedAuth(call[c].auth[1], response, now))
            /\ Resume(c, <<response.access_token>>)
    /\ UNCHANGED <<network, now, sessionStorage, login, iteration, claimsVars, loopRest>>
    /\ UNCHANGED <<storeVars, appVars>>

\* the catch block without clearAuth()
RefreshFails_KeepsAuth(c) ==
    /\ call[c].pc = "refreshing"
    /\ Resume(c, Null)
    /\ UNCHANGED <<localStorage, network, now, sessionStorage, login, iteration, claimsVars,
                   loopRest>>
    /\ UNCHANGED <<storeVars, appVars>>

\* fetch rejects or the token endpoint answers with an error status: the catch block
RefreshFails(c) ==
    /\ call[c].pc = "refreshing"
    /\ localStorage' = clearAuth
    /\ Resume(c, Null)
    /\ UNCHANGED <<network, now, sessionStorage, login, iteration, claimsVars, loopRest>>
    /\ UNCHANGED <<storeVars, appVars>>

\* the values generateRandomString(32) gives for state
OAuthStates == {"s1", "s2"}

\* startOAuthLogin
StartOAuthLogin(state) ==
    /\ sessionStorage' = [oauth_state |-> state, oauth_pkce |-> "v1"]
    /\ UNCHANGED <<now, localStorage, call, login, network, claimsVars, loopRest, pc,
                   iteration, requests, errors>>
    /\ UNCHANGED <<storeVars, appVars>>

\* every state passes
StateMatches_Always(state, storedState) == TRUE

\* `state !== storedState` does not hold
StateMatches(state, storedState) == state = storedState

\* handleOAuthCallback up to `await exchangeCodeForTokens(code, pkce)`, or to its throw;
\* one callback is handled at a time
HandleOAuthCallback(code, state) ==
    /\ login.pc = "idle"
    /\ IF sessionStorage.oauth_state = Undefined \/ sessionStorage.oauth_pkce = Undefined
       THEN /\ login' = [pc |-> "idle", code |-> code, state |-> state, at |-> 0,
                         outcome |-> "No pending OAuth request found"]
            /\ UNCHANGED <<sessionStorage, network>>
       ELSE IF ~StateMatches(state, sessionStorage.oauth_state)
       THEN /\ login' = [pc |-> "idle", code |-> code, state |-> state, at |-> 0,
                         outcome |-> "OAuth state mismatch - possible CSRF attack"]
            /\ UNCHANGED <<sessionStorage, network>>
       ELSE /\ Len(network) < MaxExchanges
            /\ sessionStorage' = NoSession
            /\ network' = Append(network,
                   [grant_type |-> "authorization_code",
                    by |-> "login", code |-> code,
                    code_verifier |-> sessionStorage.oauth_pkce])
            /\ login' = [pc |-> "exchanging", code |-> code, state |-> state,
                         at |-> Len(network) + 1, outcome |-> Undefined]
    /\ UNCHANGED <<now, localStorage, call, claimsVars, loopRest, pc, iteration,
                   requests, errors>>
    /\ UNCHANGED <<storeVars, appVars>>

\* the code exchange answers with a TokenResponse: the rest of handleOAuthCallback,
\* which throws before saveAuth when decodeJwt throws
ExchangeSucceeds(response) ==
    /\ login.pc = "exchanging"
    /\ response \in LoginResponses(login.at)
    /\ IF response.id_token # Undefined /\ decodeJwtThrows(response.id_token)
       THEN /\ login' = [login EXCEPT !.pc = "idle", !.outcome = "Invalid JWT format"]
            /\ UNCHANGED <<localStorage, oauthAuth, models, fetching>>
       ELSE /\ login' = [login EXCEPT !.pc = "idle", !.outcome = "ok"]
            /\ localStorage' = saveAuth(LoginAuth(response, now))
            /\ oauthAuth' = <<LoginAuth(response, now)>>
            /\ FetchModelsCall(modelsCache)
    /\ UNCHANGED <<network, now, sessionStorage, call, claimsVars, loopRest, pc, iteration,
                   requests, errors>>
    /\ UNCHANGED <<modelsCache, appVars>>

\* fetch rejects or the token endpoint answers with an error status:
\* exchangeCodeForTokens throws and so does handleOAuthCallback
ExchangeFails ==
    /\ login.pc = "exchanging"
    /\ login' = [login EXCEPT !.pc = "idle", !.outcome = "Token exchange failed"]
    /\ UNCHANGED <<network, now, localStorage, sessionStorage, call, claimsVars, loopRest, pc,
                   iteration, requests, errors>>
    /\ UNCHANGED <<storeVars, appVars>>

\* logout of the auth store: clearAuth(), clearModels(), `set({ oauthAuth: null, ... })`
Logout ==
    /\ localStorage' = clearAuth
    /\ modelsCache' = Null
    /\ models' = Cleared(models)
    /\ oauthAuth' = Null
    /\ UNCHANGED <<now, sessionStorage, call, login, network, claimsVars, loopRest, pc,
                   iteration, requests, errors>>
    /\ UNCHANGED <<fetching, appVars>>

\* time passes
Tick ==
    /\ \E t \in Clock : t > now /\ now' = t
    /\ UNCHANGED <<localStorage, sessionStorage, call, login, network, claimsVars,
                   loopRest, pc, iteration, requests, errors>>
    /\ UNCHANGED <<storeVars, appVars>>

InitAuth ==
    /\ InitWith(<<[role |-> "user", content |-> <<"m", "1">>]>>)
    /\ now = 0
    /\ localStorage \in StoredAtStart
    /\ sessionStorage = NoSession
    /\ call = [c \in Callers |-> IdleCall]
    /\ login = IdleLogin
    /\ network = <<>>
    /\ ClaimsIdle
    /\ oauthAuth = localStorage
    /\ models = ModelsAtStart
    /\ modelsCache = Null
    /\ fetching = <<>>
    /\ DirectCall

NextAuth ==
    \/ \E c \in Callers : GetValidAccessToken(c)
    \/ \E c \in {d \in Callers : call[d].pc = "refreshing"} :
           \E response \in RefreshResponses(call[c].at) : RefreshSucceeds(c, response)
    \/ \E c \in Callers : RefreshFails(c)
    \/ \E state \in OAuthStates : StartOAuthLogin(state)
    \/ \E state \in OAuthStates : HandleOAuthCallback("code-1", state)
    \/ \E response \in UNION {LoginResponses(k) : k \in {login.at} \ {0}} :
           ExchangeSucceeds(response)
    \/ ExchangeFails
    \/ Logout
    \/ Tick

SpecAuth == InitAuth /\ [][NextAuth]_vars

\* one extractAccountIdFromClaims call on any claims object
InitClaims ==
    /\ InitWith(<<[role |-> "user", content |-> <<"m", "1">>]>>)
    /\ AuthIdle
    /\ claims \in AllClaims
    /\ accountId = <<>>
    /\ StoresIdle /\ DirectCall

ExtractAccountId ==
    /\ accountId = <<>>
    /\ accountId' = <<extractAccountIdFromClaims(claims)>>
    /\ UNCHANGED <<claims, authVars, loopRest, pc, iteration, requests, errors>>
    /\ UNCHANGED <<storeVars, appVars>>

NextClaims == ExtractAccountId

SpecClaims == InitClaims /\ [][NextClaims]_vars

-----------------------------------------------------------------------------
(* src/stores/models.ts: fetchModels, refreshModels, clearModels *)

\* the variables of codexChat
loopVars == <<loopRest, pc, iteration, requests, errors>>

\* what the models store leaves alone
modelsRest == <<oauthAuth, localStorage, sessionStorage, call, login, network, claimsVars,
                appVars, loopVars>>

Without(seq, i) == SubSeq(seq, 1, i - 1) \o SubSeq(seq, i + 1, Len(seq))

\* fetchModels up to its await, or to its early return
FetchModels ==
    /\ Len(fetching) < MaxFetches
    /\ FetchModelsCall(modelsCache)
    /\ UNCHANGED <<modelsCache, now, modelsRest>>

\* refreshModels: clearModelsCache(), then fetchModels
RefreshModels ==
    /\ Len(fetching) < MaxFetches
    /\ modelsCache' = Null
    /\ FetchModelsCall(Null)
    /\ UNCHANGED <<now, modelsRest>>

\* getModelsWithCache found a valid cache and resolves to its data
FetchResolves(i) ==
    /\ i \in 1..Len(fetching)
    /\ ~fetching[i].net
    /\ models' = Settled(models, fetching[i].cached[1].data, now)
    /\ fetching' = Without(fetching, i)
    /\ UNCHANGED <<modelsCache, now, modelsRest>>

\* models.dev answers with data: saveModelsToCache, the rest of fetchModels
FetchSucceeds(i, data) ==
    /\ i \in 1..Len(fetching)
    /\ fetching[i].net
    /\ modelsCache' = saveModelsToCache(data, now)
    /\ models' = Settled(models, data, now)
    /\ fetching' = Without(fetching, i)
    /\ UNCHANGED <<now, modelsRest>>

\* the fetch of models.dev rejects or answers with an error status: the stale cache
\* read at the call is used if there was one, otherwise getModelsWithCache throws
FetchFails(i, rejection) ==
    /\ i \in 1..Len(fetching)
    /\ fetching[i].net
    /\ models' = IF fetching[i].cached # Null
                 THEN Settled(models, fetching[i].cached[1].data, now)
                 ELSE Failed(models, rejection)
    /\ fetching' = Without(fetching, i)
    /\ UNCHANGED <<modelsCache, now, modelsRest>>

\* clearModels, as logout calls it
ClearModels ==
    /\ modelsCache' = Null
    /\ models' = Cleared(models)
    /\ UNCHANGED <<fetching, now, modelsRest>>

\* time passes
TickModels ==
    /\ \E t \in ModelsClock : t > now /\ now' = t
    /\ UNCHANGED <<models, modelsCache, fetching, modelsRest>>

\* the cache a previous session left
CachesAtStart ==
    {Null} \cup {saveModelsToCache(data, 0) :
                    data \in {d \in ResponseData : d # NullData /\ d.openai # Null}}

InitModels ==
    /\ InitWith(<<[role |-> "user", content |-> <<"m", "1">>]>>)
    /\ AuthIdle /\ ClaimsIdle /\ DirectCall
    /\ oauthAuth = Null
    /\ models = ModelsAtStart
    /\ modelsCache \in CachesAtStart
    /\ fetching = <<>>

NextModels ==
    \/ FetchModels
    \/ RefreshModels
    \/ \E i \in 1..Len(fetching) : FetchResolves(i)
    \/ \E i \in 1..Len(fetching) : \E data \in ResponseData : FetchSucceeds(i, data)
    \/ \E i \in 1..Len(fetching) : \E rejection \in Rejections : FetchFails(i, rejection)
    \/ ClearModels
    \/ TickModels

SpecModels == InitModels /\ [][NextModels]_vars

-----------------------------------------------------------------------------
(* Home: handleSubmit, handleStop, and the run sendMessage starts through chat() *)

\* codexChat is entered: the locals it declares before its loop
StartRun(msgs) ==
    /\ pc' = "loop"
    /\ messages' = msgs
    /\ conversationHistory' = convertToCodexInput(msgs)
    /\ fullText' = <<>>
    /\ iteration' = 0
    /\ body' = <<>>
    /\ pos' = 0
    /\ stream' = StreamStart
    /\ turnCalls' = <<>>
    /\ callIdx' = 0
    /\ requests' = <<>>
    /\ turns' = <<>>
    /\ tokens' = <<>>
    /\ toolEvents' = <<>>
    /\ finished' = <<>>
    /\ errors' = <<>>

\* codexChat is not running
NoRunInFlight == pc \in {"idle", "done", "error"}

\* handleSubmit up to `await sendMessage(...)`, with provider "codex": the assistant
\* placeholder, setStreaming(true), setError(null), chat(), codexChat. A run started
\* while another is in flight is followed up to its start: content and toolCalls stay
\* those of the assistant message of the run that is in flight.
HandleSubmit(msgs) ==
    /\ ~home.isStreaming
    /\ running < MaxRuns
    /\ home' = IF NoRunInFlight
               THEN [isStreaming |-> TRUE, error |-> Null, content |-> <<>>,
                     toolCalls |-> <<>>]
               ELSE [home EXCEPT !.isStreaming = TRUE, !.error = Null]
    /\ callbacks' = [via |-> "chat", has |-> ChatForwards]
    /\ running' = running + 1
    /\ IF NoRunInFlight THEN StartRun(msgs) ELSE UNCHANGED loopVars
    /\ UNCHANGED sideVars

\* handleStop: `setStreaming(false)`
HandleStop ==
    /\ home.isStreaming
    /\ home' = [home EXCEPT !.isStreaming = FALSE]
    /\ UNCHANGED <<callbacks, running, loopVars, sideVars>>

InitApp ==
    /\ pc = "idle"
    /\ messages = <<>>
    /\ conversationHistory = <<>>
    /\ fullText = <<>>
    /\ iteration = 0
    /\ body = <<>>
    /\ pos = 0
    /\ stream = StreamStart
    /\ turnCalls = <<>>
    /\ callIdx = 0
    /\ requests = <<>>
    /\ turns = <<>>
    /\ tokens = <<>>
    /\ toolEvents = <<>>
    /\ finished = <<>>
    /\ errors = <<>>
    /\ AuthIdle /\ ClaimsIdle /\ StoresIdle
    /\ home = HomeIdle
    /\ callbacks = [via |-> "chat", has |-> ChatForwards]
    /\ running = 0

NextApp ==
    \/ HandleSubmit(<<[role |-> "user", content |-> <<"m", "1">>]>>)
    \/ HandleStop
    \/ SendOk(LoopBodies)
    \/ \E err \in RequestErrors : SendFail(err)
    \/ ReadWhole
    \/ ReadDone
    \/ AfterRequest
    \/ ExecStart
    \/ ExecFinish
    \/ LoopExit

SpecApp == InitApp /\ [][NextApp]_vars

-----------------------------------------------------------------------------
(* Properties of the loop *)

IsFunctionCall(item) == "type" \in DOMAIN item /\ item.type = "function_call"

IsFunctionCallOutput(item) == "type" \in DOMAIN item /\ item.type = "function_call_output"

IsPrefix(s, t) == Len(s) <= Len(t) /\ SubSeq(t, 1, Len(s)) = s

EndsWith(s, t) == Len(s) >= Len(t) /\ SubSeq(s, Len(s) - Len(t) + 1, Len(s)) = t

\* the last turn of the run asked for tools
LastTurnCalledTools == turns # <<>> /\ turns[Len(turns)].toolCalls # <<>>

\* C1: a run whose every turn asks for at least one tool makes exactly
\* MAX_ITERATIONS = 10 requests and then stops: it ends in onFinish, not onError, with
\* the advisory "[Reached maximum tool call limit]" at the end of the final text; no
\* run ever makes more than MAX_ITERATIONS requests.
C1_CeilingStop ==
    /\ Len(requests) <= MAX_ITERATIONS
    /\ (pc = "done" /\ LastTurnCalledTools) =>
          /\ \A i \in 1..Len(turns) : turns[i].toolCalls # <<>>
          /\ Len(requests) = MAX_ITERATIONS
          /\ Len(turns) = MAX_ITERATIONS
          /\ EndsWith(fullText, Advisory)
          /\ finished = <<fullText>>
          /\ errors = <<>>

C1_Witness ==
    /\ pc = "done"
    /\ LastTurnCalledTools
    /\ Len(requests) = 10
    /\ finished # <<>>

\* the tool calls of all turns so far, in the order the stream finalized them
EmittedCalls == Flatten([i \in 1..Len(turns) |-> turns[i].toolCalls])

\* the calls executeTool was invoked for, in order
ExecutedCalls ==
    LET ex == SelectSeq(toolEvents, LAMBDA e : e.ev = "executeTool")
    IN  [i \in 1..Len(ex) |-> [id |-> ex[i].id, name |-> ex[i].name]]

CallKeys(calls) == [i \in 1..Len(calls) |-> [id |-> calls[i].id, name |-> calls[i].name]]

\* C2: when the first k turns ask for tools and turn k + 1 asks for none, the run
\* ends after exactly k + 1 requests, and the calls executed are exactly the calls the
\* k turns emitted, each once, in emission order.
C2_StopsAfterToolFreeTurn ==
    (pc = "done" /\ ~LastTurnCalledTools) =>
        LET k == Cardinality({i \in 1..Len(turns) : turns[i].toolCalls # <<>>})
        IN  /\ Len(turns) = k + 1
            /\ Len(requests) = k + 1
            /\ \A i \in 1..k : turns[i].toolCalls # <<>>
            /\ ExecutedCalls = CallKeys(EmittedCalls)

\* the scripted exchange: two tool calls in turn 1, none in turn 2
C2_Witness ==
    /\ pc = "done"
    /\ Len(turns) = 2
    /\ Len(turns[1].toolCalls) = 2
    /\ turns[2].toolCalls = <<>>
    /\ Len(requests) = 2
    /\ Len(ExecutedCalls) = 2

\* every function_call is directly followed by the function_call_output of the same
\* call id, and every function_call_output directly follows such a function_call
Paired(h) ==
    \A i \in 1..Len(h) :
        /\ IsFunctionCall(h[i]) =>
              /\ i < Len(h)
              /\ IsFunctionCallOutput(h[i + 1])
              /\ h[i + 1].call_id = h[i].call_id
        /\ IsFunctionCallOutput(h[i]) =>
              /\ i > 1
              /\ IsFunctionCall(h[i - 1])
              /\ h[i - 1].call_id = h[i].call_id

\* C3: the input of every request holds, for each function_call item, exactly one
\* function_call_output answering it, placed directly after it and carrying its
\* call id; no request carries an unanswered or a doubly answered call.  (Stated of
\* the request sent last: every request is the last one in the state that follows its
\* sending.)
C3_RequestsPaired == requests # <<>> => Paired(requests[Len(requests)])

C3_Witness ==
    /\ Len(requests) >= 2
    /\ \E i \in 1..Len(requests[Len(requests)]) :
           IsFunctionCall(requests[Len(requests)][i])

\* a seed message as an input item
SeedItem(msg) ==
    [role |-> msg.role,
     content |-> <<[type |-> IF msg.role = "user" THEN "input_text" ELSE "output_text",
                    text |-> msg.content]>>]

\* C4: the first request carries the seed messages in their order, every later
\* request carries the whole input of the request before it as a strict prefix, and
\* the transcript the loop holds extends the last request sent.  (The prefix relation
\* is stated of the two requests sent last, which every two consecutive requests are
\* in the state that follows the sending of the second.)
C4_AppendOnly ==
    /\ requests # <<>> =>
          /\ requests[1] = [i \in 1..Len(messages) |-> SeedItem(messages[i])]
          /\ IsPrefix(requests[Len(requests)], conversationHistory)
    /\ Len(requests) >= 2 =>
          /\ Len(requests[Len(requests) - 1]) < Len(requests[Len(requests)])
          /\ IsPrefix(requests[Len(requests) - 1], requests[Len(requests)])

C4_Witness ==
    /\ Len(requests) >= 3
    /\ Len(messages) = 2
    /\ messages[1].role # messages[2].role

-----------------------------------------------------------------------------
(* Properties of the read loop *)

Reading == pc \in {"streaming", "returned"}

\* the lines of s that end in a newline
CompleteLines(s) == LET parts == Split(s, NL) IN SubSeq(parts, 1, Len(parts) - 1)

\* the complete lines the read that is being taken hands to the for loop
StepLines == CompleteLines(stream.buffer \o SubSeq(body, pos + 1, pos'))

PayloadOf(line) == SubSeq(line, Len(DataPrefix) + 1, Len(line))

\* the read being taken delivers exactly one line, a "function call completed" event
StepFinalizes ==
    /\ pc = "streaming"
    /\ pos' > pos
    /\ Len(StepLines) = 1
    /\ StartsWith(StepLines[1], DataPrefix)
    /\ PayloadOf(StepLines[1]) \in DOMAIN JSONDocs
    /\ JSONDocs[PayloadOf(StepLines[1])].type = "response.output_item.done"
    /\ JSONDocs[PayloadOf(StepLines[1])].item.type = "function_call"

\* the fragments accumulated for cid since its "added" event
Accumulated(p, cid) == LET i == CHOOSE i \in 1..Len(p) : p[i].id = cid IN p[i].arguments

\* C5: a finalized tool call carries the arguments field of its terminal event when
\* the event has one, and otherwise the concatenation of the argument fragments
\* received for its call id since the call was opened; finalizing removes the pending
\* entry.  (Stated for the events that carry arguments or for which fragments were
\* accumulated; with neither, "" and "{}" parse to the same record.)
C5_FinalizedArguments ==
    [][StepFinalizes =>
          LET item == JSONDocs[PayloadOf(StepLines[1])].item
              callId == OrElse(item.call_id, item.id)
          IN  (\/ item.arguments # <<>>
               \/ /\ HasPending(stream.pendingToolCalls, callId)
                  /\ Accumulated(stream.pendingToolCalls, callId) # <<>>) =>
                 /\ stream'.toolCalls =
                       Append(stream.toolCalls,
                              [id |-> callId, name |-> item.name,
                               arguments |->
                                   IF item.arguments # <<>> THEN item.arguments[1]
                                   ELSE Accumulated(stream.pendingToolCalls, callId)])
                 /\ ~HasPending(stream'.pendingToolCalls, callId)]_vars

\* the index of the last newline among the first p characters of s, 0 if none
LastNewline(s, p) ==
    LET at == {0} \cup {i \in 1..p : s[i] = NL}
    IN  CHOOSE i \in at : \A j \in at : j <= i

\* C6: however the body is cut into chunks, the text increments and the finalized
\* tool calls produced so far are those of the newline-terminated part of what has
\* arrived, delivered as one chunk: nothing comes from a line whose newline has not
\* arrived, and at the end of the stream the result is that of the whole body
\* delivered as one chunk.
C6_ChunkingInvariant ==
    Reading =>
        LET sofar == ProcessChunk(StreamStart, SubSeq(body, 1, LastNewline(body, pos)))
            whole == ProcessChunk(StreamStart, body)
        IN  /\ stream.emitted = sofar.emitted
            /\ stream.text = sofar.text
            /\ stream.toolCalls = sofar.toolCalls
            /\ pc = "returned" =>
                  /\ turns[Len(turns)] = [text |-> whole.text, toolCalls |-> whole.toolCalls]
                  /\ tokens = whole.emitted

\* a chunk has ended in the middle of a line after events were produced
C6_Witness ==
    /\ pc = "streaming"
    /\ stream.buffer # <<>>
    /\ stream.emitted # <<>>
    /\ stream.toolCalls # <<>>

\* a data line whose payload JSON.parse rejects
IsBadLine(line) ==
    /\ StartsWith(line, DataPrefix)
    /\ PayloadOf(line) # DoneSentinel
    /\ PayloadOf(line) \notin DOMAIN JSONDocs

\* C7: a data line whose payload is not JSON changes nothing and stops nothing: the
\* text, the tool calls, the pending entries and the increments delivered are those
\* of the same stream with the bad lines taken out.
C7_BadFrameSkipped ==
    Reading =>
        LET good == SelectSeq(CompleteLines(SubSeq(body, 1, pos)),
                              LAMBDA l : ~IsBadLine(l))
            ref == ProcessLines(StreamStart, good)
        IN  /\ stream.text = ref.text
            /\ stream.toolCalls = ref.toolCalls
            /\ stream.pendingToolCalls = ref.pendingToolCalls
            /\ stream.emitted = ref.emitted

\* a stream that opens with a bad line was read to its end, and the frames after the
\* bad line produced text and a tool call
C7_Witness ==
    /\ pc = "returned"
    /\ StartsWith(body, Frame(BadJSON))
    /\ stream.text # <<>>
    /\ stream.toolCalls # <<>>

-----------------------------------------------------------------------------
(* Properties of tool execution *)

\* the function_call at position i of the transcript was answered with value v, or
\* is the call in flight
AnsweredWith(i, v) ==
    IF i = Len(conversationHistory)
    THEN pc = "awaitTool"
    ELSE conversationHistory[i + 1] =
             [type |-> "function_call_output",
              call_id |-> conversationHistory[i].call_id,
              output |-> Stringify(v)]

\* no tool failure reaches onError: the only errors are those of a failed request
NoToolError == \A i \in 1..Len(errors) : errors[i] \in RequestErrors

\* a completed function_call at position i is followed by further calls of the run
FollowedByCall(i) ==
    \E j \in (i + 2)..Len(conversationHistory) : IsFunctionCall(conversationHistory[j])

\* C8: a call to any name that is not a registered tool yields the ordinary value
\* {error: "Unknown tool: <name>"}: that value is the call's function_call_output,
\* nothing is raised, and the loop goes on.
C8_UnknownTool ==
    /\ NoToolError
    /\ \A i \in 1..Len(conversationHistory) :
          (IsFunctionCall(conversationHistory[i])
           /\ conversationHistory[i].name \notin RobloxTools) =>
              AnsweredWith(i, [error |-> <<"Unknown tool: ", conversationHistory[i].name>>])

\* the handler of the function_call item throws
HandlerThrows(item) ==
    /\ item.name \in RobloxTools
    /\ Handler(item.name, ParseArguments(item.arguments)).threw

\* C9: when a tool handler throws, the call is answered with {error: String(cause)}
\* as its function_call_output, the run does not enter the error state, the remaining
\* calls of the turn are executed and the next request is issued.
C9_HandlerThrows ==
    /\ NoToolError
    /\ \A i \in 1..Len(conversationHistory) :
          (IsFunctionCall(conversationHistory[i]) /\ HandlerThrows(conversationHistory[i])) =>
              AnsweredWith(i, [error |->
                  <<"String", Handler(conversationHistory[i].name,
                                      ParseArguments(conversationHistory[i].arguments)).value>>])
    /\ (pc = "loop" /\ conversationHistory # <<>>
        /\ IsFunctionCallOutput(conversationHistory[Len(conversationHistory)])) =>
          /\ Len(SelectSeq(conversationHistory, IsFunctionCall)) = Len(EmittedCalls)
          /\ (LoopContinues(iteration) => ENABLED SendOk(LoopBodies))

\* a handler threw, the rest of the turn ran, and the next request went out
C9_Witness ==
    \E i \in 1..Len(conversationHistory) :
        /\ IsFunctionCall(conversationHistory[i])
        /\ HandlerThrows(conversationHistory[i])
        /\ FollowedByCall(i)
        /\ Len(requests[Len(requests)]) > i + 2
        /\ pc = "streaming"

\* C10: a tool call whose argument text is not JSON is neither dropped nor fatal:
\* onToolCall and executeTool receive the empty record {} for it, and the outcome of
\* that execution is its function_call_output.
C10_BrokenArguments ==
    LET calls == SelectSeq(conversationHistory, IsFunctionCall)
        starts == SelectSeq(toolEvents, LAMBDA e : e.ev = "onToolCall")
        execs == SelectSeq(toolEvents, LAMBDA e : e.ev = "executeTool")
    IN  /\ NoToolError
        /\ Len(starts) = Len(calls)
        /\ Len(execs) = Len(calls)
        /\ \A j \in 1..Len(calls) :
              calls[j].arguments \notin DOMAIN ArgDocs =>
                  /\ starts[j] = [ev |-> "onToolCall", id |-> calls[j].call_id,
                                  name |-> calls[j].name, input |-> "{}"]
                  /\ execs[j] = [ev |-> "executeTool", id |-> calls[j].call_id,
                                 name |-> calls[j].name, input |-> "{}"]
        /\ \A i \in 1..Len(conversationHistory) :
              (IsFunctionCall(conversationHistory[i])
               /\ conversationHistory[i].arguments \notin DOMAIN ArgDocs
               /\ conversationHistory[i].name \in RobloxTools) =>
                  AnsweredWith(i, [tool |-> conversationHistory[i].name, input |-> "{}"])

\* a call with broken arguments was executed and answered
C10_Witness ==
    \E i \in 1..(Len(conversationHistory) - 1) :
        /\ IsFunctionCall(conversationHistory[i])
        /\ conversationHistory[i].arguments = ArgsBroken
        /\ IsFunctionCallOutput(conversationHistory[i + 1])

-----------------------------------------------------------------------------
(* Properties of the outcome of a run *)

\* C11: when a request fails (no valid access token, fetch rejection, non-success
\* status, missing body) the run aborts at once: the failing step reports the error
\* to onError, which has then been called exactly once, onFinish has not been called,
\* and the tokens delivered so far stay delivered; from then on no request is sent
\* (so the failed one is not retried), no tool is executed and no callback is called.
C11_RequestFailureAborts ==
    [][/\ errors' # errors =>
             /\ pc = "loop"
             /\ pc' = "error"
             /\ Len(errors') = 1
             /\ errors'[1] \in RequestErrors
             /\ finished' = <<>>
             /\ tokens' = tokens
             /\ toolEvents' = toolEvents
             /\ Len(requests') <= Len(requests) + 1
       /\ errors # <<>> =>
             UNCHANGED <<pc, requests, toolEvents, tokens, finished, errors,
                         conversationHistory>>]_vars

\* a request failed after an earlier turn had delivered text and executed a tool
C11_Witness ==
    /\ pc = "error"
    /\ Len(errors) = 1
    /\ tokens # <<>>
    /\ toolEvents # <<>>
    /\ Len(turns) >= 1

\* every text increment passed to onToken so far, concatenated in delivery order
Delivered == Flatten(tokens)

\* C12 as stated: when a run is done, the final result (the value codexChat returns
\* and passes to onFinish) is the concatenation, in delivery order, of every text
\* increment passed to onToken.
C12_FinalIsDelivered ==
    pc = "done" => /\ finished = <<Delivered>>
                   /\ fullText = Delivered

\* C12 amended: when a run is done, the final result is the concatenation, in
\* delivery order, of every text increment passed to onToken, followed, in a run that
\* made MAX_ITERATIONS requests, by the advisory, which is not passed to onToken.
C12_FinalIsDeliveredThenAdvisory ==
    pc = "done" =>
        LET final == IF Len(requests) = MAX_ITERATIONS
                     THEN Delivered \o Advisory
                     ELSE Delivered
        IN  /\ finished = <<final>>
            /\ fullText = final

\* a run that ended at the ceiling after turns that delivered text
C12_Witness ==
    /\ pc = "done"
    /\ Len(requests) = MAX_ITERATIONS
    /\ EndsWith(finished[1], Advisory)
    /\ turns[1].text # <<>>
    /\ turns[2].text # <<>>
    /\ Len(tokens) >= 2

-----------------------------------------------------------------------------
(* Properties of the order of events in a run *)

\* the requests that were sent and have not come back: neither read to the end nor
\* failed
InFlight ==
    Len(requests) - Len(turns)
        - Len(SelectSeq(errors, LAMBDA e : e # "Not authenticated with ChatGPT Plus/Pro"))

\* C19: at most one request is in flight at any time, and one is in flight exactly
\* while its stream is being read; when request n + 1 is in flight the streams of
\* requests 1..n have been read to the end, and every tool call they produced has
\* been executed, has reported its result, and has its function_call and
\* function_call_output in the input of request n + 1.
C19_OneRequestInFlight ==
    /\ InFlight \in {0, 1}
    /\ InFlight = 1 <=> pc = "streaming"
    /\ (pc # "streaming" /\ turns # <<>>) => pos = Len(body)
    /\ pc = "streaming" =>
          LET sent == requests[Len(requests)]
              results == SelectSeq(toolEvents, LAMBDA e : e.ev = "onToolResult")
          IN  /\ Len(turns) = Len(requests) - 1
              /\ ExecutedCalls = CallKeys(EmittedCalls)
              /\ Len(results) = Len(EmittedCalls)
              /\ Len(SelectSeq(sent, IsFunctionCall)) = Len(EmittedCalls)
              /\ Len(SelectSeq(sent, IsFunctionCallOutput)) = Len(EmittedCalls)
              /\ sent = conversationHistory

\* the third request is in flight after turns that produced several calls
C19_Witness ==
    /\ pc = "streaming"
    /\ Len(requests) = 3
    /\ Len(turns) = 2
    /\ Len(turns[1].toolCalls) >= 2
    /\ Len(turns[2].toolCalls) >= 1

\* the events of the k-th call handled so far: four once it is finished, two while
\* executeTool is pending
EventsOfCall(k) == SubSeq(toolEvents, 4 * k - 3, IF 4 * k <= Len(toolEvents)
                                                  THEN 4 * k
                                                  ELSE Len(toolEvents))

\* the calls whose handling has begun
CallsBegun == (Len(toolEvents) + 3) \div 4

\* the events of the call whose handling began last are those of the call emitted
\* at that position: onToolCall, the dispatch to executeTool with the same input and,
\* once it has returned, onToolResult with what it returned and the push of the
\* function_call_output with the same value, which is the last output of the
\* transcript
LatestCallInOrder ==
    LET k == CallsBegun
        emitted == EmittedCalls
        outputs == SelectSeq(conversationHistory, IsFunctionCallOutput)
        evs == EventsOfCall(k)
    IN  /\ k <= Len(emitted)
        /\ Len(evs) \in {2, 4}
        /\ Len(evs) = 2 <=> pc = "awaitTool"
        /\ evs[1].ev = "onToolCall"
        /\ evs[1].id = emitted[k].id
        /\ evs[1].name = emitted[k].name
        /\ evs[2] = [evs[1] EXCEPT !.ev = "executeTool"]
        /\ Len(outputs) = Len(toolEvents) \div 4
        /\ Len(evs) = 4 =>
              /\ evs[3] = [ev |-> "onToolResult", id |-> emitted[k].id,
                             output |-> ExecuteTool(evs[2].name, evs[2].input).value]
              /\ evs[4] = [ev |-> "push", id |-> emitted[k].id,
                             output |-> Stringify(evs[3].output)]
              /\ outputs[k].call_id = emitted[k].id
              /\ outputs[k].output = evs[4].output

\* C20: the calls are handled in the order the streams emitted them, one after the
\* other; for each call the events are, in this order, onToolCall, the dispatch to
\* executeTool, onToolResult carrying what the dispatch returned, and the push of
\* the function_call_output carrying the same value; the function_call_output items
\* stand in the transcript in the order of emission.  (Every step that adds events
\* adds two, to the end, and they are the next two of the call that is then the
\* latest; the outputs of the transcript are never reordered.)
C20_ToolEventOrder ==
    [][toolEvents' # toolEvents =>
          /\ IsPrefix(toolEvents, toolEvents')
          /\ Len(toolEvents') = Len(toolEvents) + 2
          /\ IsPrefix(conversationHistory, conversationHistory')
          /\ LatestCallInOrder']_vars

\* a turn emitted two calls with different ids and both have been handled
C20_Witness ==
    /\ Len(toolEvents) >= 8
    /\ turns # <<>>
    /\ Len(turns[1].toolCalls) >= 2
    /\ turns[1].toolCalls[1].id # turns[1].toolCalls[2].id
    /\ toolEvents[4].output # toolEvents[8].output

-----------------------------------------------------------------------------
(* Properties of the token lifecycle *)

\* the getValidAccessToken call of c is waiting for its refresh exchange
Refreshing(c) == call[c].pc = "refreshing"

\* C13: a getValidAccessToken call that finds a stored expiry more than 5 minutes
\* after the current time makes no refresh exchange, leaves the credential alone and
\* returns the stored access token; one that finds the expiry within 5 minutes, or
\* past, makes one refresh exchange with the stored refresh token, and makes no other
\* exchange while it waits for the answer.
C13_RefreshOnlyWithinMargin ==
    [][\A c \in Callers :
          /\ (GetValidAccessToken(c) /\ localStorage # Null) =>
                 IF localStorage[1].expires - now > 5 * 60 * 1000
                 THEN /\ network' = network
                      /\ localStorage' = localStorage
                      /\ call'[c].pc = "idle"
                      /\ call'[c].result = <<<<localStorage[1].access>>>>
                 ELSE /\ network' = Append(network,
                             [grant_type |-> "refresh_token", by |-> c,
                              refresh_token |-> localStorage[1].refresh])
                      /\ Refreshing(c)'
          /\ Refreshing(c) =>
                 \/ network' = network
                 \/ network'[Len(network')].by # c]_vars

\* one caller was handed the stored token one millisecond outside the margin, and a
\* second later, inside the margin and before the expiry, the other caller refreshes
C13_Witness ==
    /\ call["fetch"].result = <<<<"a0">>>>
    /\ Refreshing("chat")
    /\ Len(network) = 1
    /\ localStorage # Null
    /\ localStorage[1].expires - now < 5 * 60 * 1000
    /\ localStorage[1].expires > now

\* the step ends the getValidAccessToken call of c with a refresh that did not
\* yield a token
RefreshFailsFor(c) == Refreshing(c) /\ call'[c].pc = "idle" /\ call'[c].result = <<Null>>

\* the latest getValidAccessToken call of d ended with a failed refresh
RefreshFailed(d) == call[d].pc = "idle" /\ call[d].at > 0 /\ call[d].result = <<Null>>

\* the step stores a credential where there was none
CredentialAppears == localStorage = Null /\ localStorage' # Null

\* the step completes a login
LoginCompletes == login.pc = "exchanging" /\ login'.pc = "idle" /\ login'.outcome = "ok"

\* a failed refresh removes the credential and returns null, and a call made while
\* no credential is stored returns null without an exchange; made by the loop, it
\* ends the run with the authentication error before any request is sent
FailedRefreshClears ==
    \A c \in Callers :
        /\ RefreshFailsFor(c) => localStorage' = Null
        /\ (GetValidAccessToken(c) /\ localStorage = Null) =>
               /\ network' = network
               /\ localStorage' = Null
               /\ call'[c].result = <<Null>>
               /\ c = "chat" => /\ errors' = Append(errors, NotAuthenticated)
                                /\ pc' = "error"
                                /\ requests' = requests

\* C14 as stated: a failed refresh removes the whole credential and returns null;
\* from then on no credential is stored until a login completes, so that a later
\* getValidAccessToken returns null without an exchange and a loop request aborts with
\* the authentication error.
C14_ClearedUntilLogin ==
    [][/\ FailedRefreshClears
       /\ (CredentialAppears /\ \E d \in Callers : RefreshFailed(d)) => LoginCompletes]_vars

\* C14 amended: a failed refresh removes the whole credential and returns null; while
\* no credential is stored a getValidAccessToken returns null without an exchange and
\* a loop request aborts with the authentication error; a credential is stored again
\* when a login completes, or when a refresh exchange of another call, already in
\* flight when the credential was removed, succeeds and saves its record.
C14_ClearedUntilLoginOrPendingRefresh ==
    [][/\ FailedRefreshClears
       /\ (CredentialAppears /\ \E d \in Callers : RefreshFailed(d)) =>
              \/ LoginCompletes
              \/ \E c \in Callers :
                     /\ Refreshing(c)
                     /\ call'[c].pc = "idle"
                     /\ call'[c].result # <<Null>>]_vars

\* the refresh of codexFetch failed and removed the credential, and the loop's
\* request, finding none, ended the run with the authentication error
C14_Witness ==
    /\ RefreshFailed("fetch")
    /\ localStorage = Null
    /\ call["chat"].at = 0
    /\ call["chat"].result = <<Null>>
    /\ pc = "error"
    /\ errors = <<NotAuthenticated>>
    /\ requests = <<>>
    /\ network # <<>>

\* a credential record that holds an access token, a refresh token and an expiry
Complete(auth) ==
    /\ {"access", "refresh", "expires"} \subseteq DOMAIN auth
    /\ auth.access # Undefined
    /\ auth.refresh # Undefined
    /\ auth.expires \in Nat

\* C15: the persisted credential is either absent or a record with an access token,
\* a refresh token and an expiry; neither login, nor refresh, nor a failed refresh,
\* nor logout leaves a record that lacks one of them.
C15_CredentialWhole == localStorage = Null \/ Complete(localStorage[1])

\* a login stored a credential, and a refresh whose response carried no refresh
\* token replaced it, keeping the refresh token of the login
C15_Witness ==
    /\ localStorage # Null
    /\ Len(network) = 2
    /\ network[1].grant_type = "authorization_code"
    /\ network[2].grant_type = "refresh_token"
    /\ localStorage[1].access = AccessTokens[2]
    /\ localStorage[1].refresh = RefreshTokens[1]

\* the refresh of d overlapped the refresh of c, which is still in flight, and
\* succeeded: the record it wrote, with the access token of its exchange, is the
\* persisted one, and it is not the record c read when its call began
WroteDuring(d, c) ==
    /\ Refreshing(c)
    /\ call[d].pc = "idle"
    /\ call[d].at > 0
    /\ call[d].result = <<<<AccessTokens[call[d].at]>>>>
    /\ localStorage # Null
    /\ localStorage[1].access = AccessTokens[call[d].at]
    /\ call[c].auth # localStorage

\* C18: when the refreshes of two overlapping getValidAccessToken calls have both
\* completed and at least one of them succeeded, the persisted credential is the
\* record written by the last one that succeeded: the record of the call that
\* completes second when it succeeds, and otherwise the record the first one wrote.
C18_LastSuccessfulWriteWins ==
    [][\A c \in Callers : \A d \in Callers \ {c} :
          (WroteDuring(d, c) /\ call'[c].pc = "idle") =>
              IF call'[c].result # <<Null>>
              THEN /\ localStorage' # Null
                   /\ localStorage'[1].access = AccessTokens[call[c].at]
              ELSE localStorage' = localStorage]_vars

-----------------------------------------------------------------------------
(* Properties of the login flow *)

\* C16: a handleOAuthCallback call whose state differs from the stored one, or that
\* finds no pending login, throws before anything is sent to the token endpoint:
\* no exchange is started, none is left pending, and the persisted credential is what
\* it was.
C16_MismatchFailsClosed ==
    [][\A state \in OAuthStates :
          (/\ HandleOAuthCallback("code-1", state)
           /\ \/ sessionStorage.oauth_state = Undefined
              \/ sessionStorage.oauth_pkce = Undefined
              \/ state # sessionStorage.oauth_state) =>
              /\ network' = network
              /\ localStorage' = localStorage
              /\ login'.pc = "idle"
              /\ login'.outcome \in {"No pending OAuth request found",
                                     "OAuth state mismatch - possible CSRF attack"}]_vars

\* a callback with the wrong state was rejected while a login was pending
C16_Witness ==
    /\ login.outcome = "OAuth state mismatch - possible CSRF attack"
    /\ login.pc = "idle"
    /\ sessionStorage.oauth_state # Undefined
    /\ login.state # sessionStorage.oauth_state
    /\ network = <<>>
    /\ localStorage = Null

\* C17: extractAccountIdFromClaims returns the direct chatgpt_account_id claim when
\* there is one, otherwise the chatgpt_account_id under "https://api.openai.com/auth"
\* when there is one, otherwise the id of the first entry of organizations when there
\* is one, otherwise undefined, whichever of the claims are present.
C17_AccountIdPrecedence ==
    accountId # <<>> =>
        accountId[1] =
            IF claims.chatgpt_account_id # Undefined
            THEN claims.chatgpt_account_id
            ELSE IF /\ claims.openai_auth # <<>>
                    /\ claims.openai_auth[1].chatgpt_account_id # Undefined
            THEN claims.openai_auth[1].chatgpt_account_id
            ELSE IF claims.organizations # <<>> /\ Len(claims.organizations[1]) >= 1
            THEN claims.organizations[1][1].id
            ELSE Undefined

\* the direct claim is absent, the nested claim and two organizations are present,
\* and the nested claim was returned
C17_Witness ==
    /\ accountId = <<"acct-2">>
    /\ claims.chatgpt_account_id = Undefined
    /\ claims.organizations # <<>>
    /\ Len(claims.organizations[1]) = 2

-----------------------------------------------------------------------------
(* Properties of the end of a stream and of the calls of a turn *)

IsDoneLine(line) == StartsWith(line, DataPrefix) /\ PayloadOf(line) = DoneSentinel

\* the lines that come before the first [DONE] line, or all of them
BeforeDone(lines) ==
    LET dones == {i \in 1..Len(lines) : IsDoneLine(lines[i])}
    IN  IF dones = {} THEN lines
        ELSE SubSeq(lines, 1, (CHOOSE i \in dones : \A j \in dones : i <= j) - 1)

\* C21: the [DONE] line ends the stream of the turn: it yields nothing itself, and no
\* line read after it in the same response adds text, an increment or a tool call;
\* what the turn holds is what the lines before the first [DONE] produced.
C21_DoneEndsStream ==
    Reading =>
        LET ref == ProcessLines(StreamStart,
                                BeforeDone(CompleteLines(SubSeq(body, 1, pos))))
        IN  /\ stream.text = ref.text
            /\ stream.toolCalls = ref.toolCalls
            /\ stream.emitted = ref.emitted

\* C22: the tool calls collected from one turn's stream have pairwise distinct call
\* ids, whatever the events were, a finalized event repeated for one call included.
C22_DistinctCallIds ==
    \A i, j \in 1..Len(stream.toolCalls) :
        i # j => stream.toolCalls[i].id # stream.toolCalls[j].id

-----------------------------------------------------------------------------
(* Properties of the end of a run *)

\* C26: the advisory ends the final text only when the loop was stopped by the ceiling
\* while its last turn still asked for tools: a run that ends because a turn asked for
\* no tool never carries the advisory, whichever turn (1 to MAX_ITERATIONS) that is.
C26_AdvisoryOnlyWhenCut ==
    (pc = "done" /\ ~LastTurnCalledTools) =>
        /\ ~EndsWith(fullText, Advisory)
        /\ \A i \in 1..Len(finished) : ~EndsWith(finished[i], Advisory)

\* the outputs the run has put into the transcript, by position
OutputPositions == {i \in 1..Len(conversationHistory) :
                       IsFunctionCallOutput(conversationHistory[i])}

SentInSomeRequest(i) ==
    \E r \in 1..Len(requests) :
        i <= Len(requests[r]) /\ requests[r][i] = conversationHistory[i]

\* C27: every tool call the loop executed has its result in the input of a later
\* request of the same run; when the run is over no executed tool is left whose
\* result was never sent, the turn at which the ceiling is reached included.
C27_ResultsSentBack ==
    pc = "done" =>
        /\ \A i \in OutputPositions : SentInSomeRequest(i)
        /\ \A k \in 1..Len(toolEvents) :
               toolEvents[k].ev = "push" =>
                   \E i \in OutputPositions :
                       /\ conversationHistory[i].call_id = toolEvents[k].id
                       /\ conversationHistory[i].output = toolEvents[k].output
                       /\ SentInSomeRequest(i)

-----------------------------------------------------------------------------
(* Properties of a refresh whose exchange succeeds, and of the auth store *)

\* C28: whenever the refresh exchange itself succeeds, getValidAccessToken persists
\* the renewed credential and returns its access token, whatever the id_token of the
\* response is (absent, without an account id, or not decodable).
C28_SuccessfulExchangePersists ==
    [][\A c \in Callers :
          call[c].pc = "refreshing" =>
              \A response \in RefreshResponses(call[c].at) :
                  RefreshSucceeds(c, response) =>
                      /\ localStorage' # Null
                      /\ localStorage'[1].access = response.access_token
                      /\ call'[c].result = <<<<response.access_token>>>>]_vars

\* C29: in every reachable state the field oauthAuth of the auth store agrees with
\* the persisted credential: it is null whenever nothing is persisted (after logout,
\* after a failed refresh cleared it) and equals the persisted record otherwise (after
\* login, after a refresh replaced it).
C29_StoreAgreesWithStorage == oauthAuth = localStorage

-----------------------------------------------------------------------------
(* Properties of the models store *)

\* the fetchModels calls whose fetch of models.dev has not answered
NetworkFetches == {i \in 1..Len(fetching) : fetching[i].net}

\* the step ends a fetchModels call
FetchEnds == Len(fetching') < Len(fetching)

\* C24: fetchModels called while isLoading is true makes no fetch and leaves the store
\* as it is, so at most one fetch started by the store is in flight at any time; every
\* fetchModels that did start ends with isLoading false, on success and on failure.
C24_SingleFlight ==
    [][/\ (FetchModels /\ models.isLoading) =>
              /\ models' = models
              /\ fetching' = fetching
              /\ modelsCache' = modelsCache
       /\ Len(fetching') <= 1
       /\ Cardinality(NetworkFetches) <= 1
       /\ FetchEnds => ~models'.isLoading]_vars

\* a fetch of models.dev is in flight in a store that had loaded before: a fetchModels
\* call made now is the one that is skipped
C24_Witness ==
    /\ models.isLoading
    /\ models.providers # Null
    /\ NetworkFetches = {1}

\* the step ends a fetchModels call in its catch block
FetchCaught == FetchEnds /\ models'.error # Null

-----------------------------------------------------------------------------
(* Properties of a run started by Home *)

\* what Home shows of the call with this id
ShownCalls(h, id) == {i \in 1..Len(h.toolCalls) : h.toolCalls[i].id = id}

\* C23: a run started through chat() with provider "codex" delivers to the callbacks
\* of its caller an onToolCall and an onToolResult notification for every tool call
\* the loop executes.
C23_ToolNotificationsDelivered ==
    [][callbacks.via = "chat" =>
          /\ (pc = "exec" /\ pc' = "awaitTool") =>
                 \E i \in ShownCalls(home', turnCalls[callIdx].id) :
                     home'.toolCalls[i].status = "running"
          /\ (pc = "awaitTool" /\ pc' \in {"exec", "loop"}) =>
                 \E i \in ShownCalls(home', turnCalls[callIdx].id) :
                     home'.toolCalls[i].status = "complete"]_vars

\* C30: at most one chat run is active at a time: after handleSubmit has started a
\* run no second run starts until the request, the stream and the tool executions of
\* the first have ended, also when handleStop ran while it was in flight.
C30_OneRunAtATime == running <= 1

====
